---- MODULE Spec2Model ----
(***************************************************************************)
(* Model of Pingdom_Redirect_Checker_2.1.py: the redirect tracer and the   *)
(* DNS inspector of check_redirects_and_dns, the probe call                *)
(* perform_pingdom_check, the lane body process_hostname_batch and the     *)
(* partitioning and thread-pool join of main.                              *)
(*                                                                         *)
(* Python strings are TLA+ strings; f-strings are \o concatenations and    *)
(* the formatting of an integer is ToString.                               *)
(***************************************************************************)
EXTENDS Integers, Sequences, FiniteSets, TLC

VARIABLES
    hostname,        \* argument of check_redirects_and_dns
    result,          \* the result dict of check_redirects_and_dns
    d_pc,            \* position in the DNS part (lines 52-77)
    queried,         \* history: the resolver.resolve calls made and their outcomes
    t_pc,            \* position in the redirect part (lines 80-112)
    session_open,    \* a requests.Session created at line 81 and not closed
    response,        \* the local `response`
    redirects,       \* the local list `redirects`
    redirect_count,  \* the local `redirect_count`
    gets,            \* history: the URLs handed to session.get, in order
    answers,         \* history: what each of those GETs came back with
    checks,          \* main: what retrieve_pingdom_checks returned
    target_urls,     \* main: the hostnames asked for
    filtered_checks, \* main: the checks to process
    max_workers,     \* main: the local `max_workers`
    batches,         \* main: the list of lane slices
    m_pc,            \* main: control position
    lane,            \* one record per submitted batch: its future and its thread
    yielded,         \* main: the futures as_completed has handed out
    results,         \* main: the list `results`
    csv_rows         \* the rows written to the CSV file

traceVars == <<t_pc, session_open, response, redirects, redirect_count, gets, answers>>
dnsVars == <<d_pc, queried>>
hostVars == <<hostname, result, dnsVars, traceVars>>
mainVars == <<checks, target_urls, filtered_checks, max_workers, batches, m_pc,
              lane, yielded, results, csv_rows>>
vars == <<hostVars, mainVars>>

----------------------------------------------------------------------------
(* Strings *)

StartsWith(s, p) == Len(s) >= Len(p) /\ SubSeq(s, 1, Len(p)) = p

\* sep.join(seq)
RECURSIVE Join(_, _)
Join(seq, sep) ==
    IF seq = <<>> THEN ""
    ELSE IF Len(seq) = 1 THEN seq[1]
    ELSE seq[1] \o sep \o Join(Tail(seq), sep)

----------------------------------------------------------------------------
(* The world outside: hostnames, servers, failures *)

Hostnames == {"example.com", "a.io"}

\* Location header values a server may send
Locations == {"/path", "path", "//x", "https://other.com/"}

NoHeader == "<absent>"

\* status line and Location header of the responses a server may give
ServerAnswers ==
    [status_code : {301, 302}, location : Locations]
        \cup [status_code : {200, 204, 301, 404}, location : {NoHeader}]

\* text of a requests.exceptions.RequestException
RequestErrors == {"timed out", "connection refused"}

NoResponse == [status_code |-> 0, location |-> NoHeader, url |-> ""]

\* history entries: a response, or the RequestException raised instead
Answered(a) == [status_code |-> a.status_code, location |-> a.location, error |-> ""]
Raised(e) == [status_code |-> 0, location |-> NoHeader, error |-> e]

----------------------------------------------------------------------------
(* requests: what the code reads from a response *)

REDIRECT_STATI == {301, 302, 303, 307, 308}

\* response.is_redirect
is_redirect(r) == r.location # NoHeader /\ r.status_code \in REDIRECT_STATI

SchemeLen(u) ==
    IF StartsWith(u, "https://") THEN 8
    ELSE IF StartsWith(u, "http://") THEN 7 ELSE 0

\* response.url of a response to a GET on u with allow_redirects=False: the
\* prepared request URL, whose empty path is "/"
PreparedUrl(u) ==
    IF \E i \in (SchemeLen(u) + 1)..Len(u) : SubSeq(u, i, i) = "/"
    THEN u ELSE u \o "/"

Respond(u, a) ==
    [status_code |-> a.status_code, location |-> a.location, url |-> PreparedUrl(u)]

----------------------------------------------------------------------------
(* check_redirects_and_dns, DNS part *)

RecordTypes == <<"A", "CNAME", "NS">>

\* the record sets a resolver.resolve(hostname, t, raise_on_no_answer=False) may
\* return, as the to_text() of each rdata; <<>> is an answer without records
DnsAnswers(t) ==
    CASE t = "A" -> {<<>>, <<"192.0.2.1">>, <<"192.0.2.1", "192.0.2.2">>}
      [] t = "CNAME" -> {<<>>, <<"cdn.example.net.">>}
      [] t = "NS" -> {<<>>, <<"ns1.example.net.", "ns2.example.net.">>}

\* text of the exceptions resolver.resolve may raise (NXDOMAIN, timeout)
DnsErrors == {"NXDOMAIN", "timeout"}

\* text of the exception dns.resolver.Resolver() may raise
ResolverErrors == {"no nameservers"}

\* history entries
Resolved(t, ans) == [type |-> t, answer |-> ans, error |-> ""]
Failed(t, e) == [type |-> t, answer |-> <<>>, error |-> e]

EmptyResult == [A |-> "", CNAME |-> "", NS |-> "", Path |-> ""]

FieldOf_copyPaste(t) == IF t = "CNAME" THEN "A" ELSE t

\* lines 58, 65, 72: the key of `result` the block of record type t writes
FieldOf(t) == t

\* lines 58, 65, 72
RecordsField(t, ans) ==
    IF ans # <<>> THEN Join(ans, ", ") ELSE "No " \o t \o " Records Found"

\* lines 60, 67, 74
FailedField(t, e) == "DNS Lookup " \o t \o " Failed: " \o e

\* the block that follows the block of record type t
NextLookup(t) ==
    CASE t = "A" -> "CNAME"
      [] t = "CNAME" -> "NS"
      [] t = "NS" -> "done"

DnsInit ==
    /\ d_pc = "resolver"
    /\ queried = <<>>

\* lines 53, 76-77: the resolver is set up, or the outer handler runs
MakeResolver ==
    /\ d_pc = "resolver"
    /\ \/ /\ d_pc' = "A"
          /\ UNCHANGED result
       \/ \E e \in ResolverErrors :
            /\ result' = [result EXCEPT !.A = "DNS Lookup Failed: " \o e]
            /\ d_pc' = "done"
    /\ UNCHANGED <<hostname, queried, traceVars, mainVars>>

\* one try block of lines 56-74: the query of record type t and its handler
Lookup(t) ==
    /\ d_pc = t
    /\ \/ \E ans \in DnsAnswers(t) :
            /\ result' = [result EXCEPT ![FieldOf(t)] = RecordsField(t, ans)]
            /\ queried' = Append(queried, Resolved(t, ans))
       \/ \E e \in DnsErrors :
            /\ result' = [result EXCEPT ![FieldOf(t)] = FailedField(t, e)]
            /\ queried' = Append(queried, Failed(t, e))
    /\ d_pc' = NextLookup(t)
    /\ UNCHANGED <<hostname, traceVars, mainVars>>

\* lines 56-60
LookupA == Lookup("A")

\* lines 63-67
LookupCNAME == Lookup("CNAME")

\* lines 70-74
LookupNS == Lookup("NS")

----------------------------------------------------------------------------
(* check_redirects_and_dns, redirect part *)

hop_limit == 5

ResolveLocation_noSeparator(h, location) ==
    IF ~StartsWith(location, "http://") /\ ~StartsWith(location, "https://")
    THEN "http://" \o h \o location
    ELSE location

\* lines 92-96
ResolveLocation(h, location) ==
    IF ~StartsWith(location, "http://") /\ ~StartsWith(location, "https://")
    THEN IF StartsWith(location, "/")
         THEN "http://" \o h \o location
         ELSE "http://" \o h \o "/" \o location
    ELSE location

NoRedirection_anyStatus(r) == ToString(r.status_code) \o " => " \o r.url

\* line 86
NoRedirection(r) == "200 => " \o r.url \o " (No redirection)"

HopEntry_swapped(status_code, location) == location \o " => " \o ToString(status_code)

\* line 99
HopEntry(status_code, location) == ToString(status_code) \o " => " \o location

\* line 104
FinalEntry(r) == ToString(r.status_code) \o " => " \o r.url

OnRequestFailed_keepHops(e) ==
    [result EXCEPT !.Path = Join(Append(redirects, "Request Failed: " \o e), " | ")]

\* lines 109-110: the handler overwrites the field; `redirects` is not used
OnRequestFailed(e) == [result EXCEPT !.Path = "Request Failed: " \o e]

LoopGuard_offByOne == is_redirect(response) /\ redirect_count <= hop_limit

\* line 90
LoopGuard == is_redirect(response) /\ redirect_count < hop_limit

TraceInit ==
    /\ t_pc = "get"
    /\ session_open = FALSE
    /\ response = NoResponse
    /\ redirects = <<>>
    /\ redirect_count = 0
    /\ gets = <<>>
    /\ answers = <<>>

\* lines 81-82, 109-110
FirstGet ==
    /\ t_pc = "get"
    /\ session_open' = TRUE
    /\ LET u == "http://" \o hostname IN
       /\ gets' = Append(gets, u)
       /\ \/ \E a \in ServerAnswers :
                /\ response' = Respond(u, a)
                /\ answers' = Append(answers, Answered(a))
                /\ t_pc' = "classify"
                /\ UNCHANGED result
          \/ \E e \in RequestErrors :
                /\ result' = OnRequestFailed(e)
                /\ answers' = Append(answers, Raised(e))
                /\ t_pc' = "done"
                /\ UNCHANGED response
    /\ UNCHANGED <<hostname, redirects, redirect_count>>
    /\ UNCHANGED <<dnsVars, mainVars>>

\* lines 85-89, 106-107; every branch falls through to the return of line 112
Classify ==
    /\ t_pc = "classify"
    /\ IF response.status_code = 200
       THEN /\ result' = [result EXCEPT !.Path = NoRedirection(response)]
            /\ t_pc' = "done"
            /\ UNCHANGED <<redirects, redirect_count>>
       ELSE IF is_redirect(response)
       THEN /\ redirects' = <<>>
            /\ redirect_count' = 0
            /\ t_pc' = "loop"
            /\ UNCHANGED result
       ELSE /\ result' = [result EXCEPT !.Path = "No Redirect"]
            /\ t_pc' = "done"
            /\ UNCHANGED <<redirects, redirect_count>>
    /\ UNCHANGED <<hostname, session_open, response, gets, answers>>
    /\ UNCHANGED <<dnsVars, mainVars>>

\* lines 90-101, 109-110: one iteration of the while loop
LoopIter ==
    /\ t_pc = "loop"
    /\ LoopGuard
    /\ LET location == ResolveLocation(hostname, response.location)
           status_code == response.status_code
       IN
       /\ redirects' = Append(redirects, HopEntry(status_code, location))
       /\ gets' = Append(gets, location)
       /\ \/ \E a \in ServerAnswers :
                /\ response' = Respond(location, a)
                /\ answers' = Append(answers, Answered(a))
                /\ redirect_count' = redirect_count + 1
                /\ t_pc' = "loop"
                /\ UNCHANGED result
          \/ \E e \in RequestErrors :
                /\ result' = OnRequestFailed(e)
                /\ answers' = Append(answers, Raised(e))
                /\ t_pc' = "done"
                /\ UNCHANGED <<response, redirect_count>>
    /\ UNCHANGED <<hostname, session_open>>
    /\ UNCHANGED <<dnsVars, mainVars>>

\* lines 90, 104-105: the loop ends, the final entry is added and the list joined
LoopExit ==
    /\ t_pc = "loop"
    /\ ~LoopGuard
    /\ redirects' = Append(redirects, FinalEntry(response))
    /\ result' = [result EXCEPT !.Path = Join(redirects', " | ")]
    /\ t_pc' = "done"
    /\ UNCHANGED <<hostname, session_open, response, redirect_count, gets, answers>>
    /\ UNCHANGED <<dnsVars, mainVars>>

----------------------------------------------------------------------------
(* perform_pingdom_check *)

\* dict.get(k, default)
Get(d, k, default) == IF k \in DOMAIN d THEN d[k] ELSE default

\* a JSON body as response.json() returns it: an object (a dict) or an array
JsonObject(d) == [kind |-> "object", value |-> d]
JsonArray == [kind |-> "array", value |-> <<>>]

NoDict == [k \in {} |-> ""]

\* bodies of the probe API's 2xx answers
ProbeBodies ==
    { JsonObject([result |-> [status |-> "down", statusdesc |-> "Timeout"]]),
      JsonObject(NoDict),
      JsonArray }

\* what one call of perform_pingdom_check meets: a body, or a RequestException
ProbeOutcomes ==
    [body : ProbeBodies, error : {""}] \cup [body : {JsonObject(NoDict)}, error : RequestErrors]

Returned(v) == [raised |-> "", value |-> v]
Propagated(x) == [raised |-> x, value |-> <<>>]

ProbeErrorRow_noDetail(check_id, check_name, target_url, e) ==
    <<check_name, target_url, "Error", "N/A", "N/A", "N/A", check_id>>

\* line 46
ProbeErrorRow(check_id, check_name, target_url, e) ==
    <<check_name, target_url, "Error: " \o e, "N/A", "N/A", "N/A", check_id>>

\* lines 34-35: result.get on a body that is no dict is an AttributeError,
\* which the handler of line 45, for RequestException, does not catch
ProbeRaises(o) == o.error = "" /\ o.body.kind # "object"

\* lines 27-46: the value returned, or the exception that leaves the function
perform_pingdom_check(check_id, check_name, target_url, o) ==
    IF o.error # ""
    THEN Returned(<<target_url, ProbeErrorRow(check_id, check_name, target_url, o.error)>>)
    ELSE IF ProbeRaises(o)
    THEN Propagated("AttributeError")
    ELSE LET result_data == Get(o.body.value, "result", NoDict) IN
         IF result_data # NoDict
         THEN Returned(<<target_url,
                         <<check_name, target_url,
                           Get(result_data, "status", "N/A"),
                           Get(result_data, "probedesc", "N/A"),
                           Get(result_data, "statusdesc", "N/A"),
                           Get(result_data, "statusdesclong", "N/A"),
                           check_id>> >>)
         ELSE Returned(<<target_url,
                         <<check_name, target_url, "No result returned",
                           "N/A", "N/A", "N/A", check_id>> >>)

----------------------------------------------------------------------------
(* process_hostname_batch and main *)

\* the ids of the checks the account may hold
MaxChecks == 3

\* the check dicts of retrieve_pingdom_checks; two checks may watch one hostname
CheckOf(id) ==
    [id |-> id, name |-> "check " \o ToString(id),
     hostname |-> IF id % 2 = 1 THEN "example.com" ELSE "a.io"]

\* line 149: the thread count main fixes
fixed_workers == 16

\* values check_redirects_and_dns(h) returns: every lookup and the trace
\* succeeded, or every one of them failed
HostResults(h) ==
    { <<h, [A |-> RecordsField("A", <<"192.0.2.1">>),
            CNAME |-> RecordsField("CNAME", <<>>),
            NS |-> RecordsField("NS", <<"ns1.example.net.", "ns2.example.net.">>),
            Path |-> NoRedirection(Respond("http://" \o h,
                                           [status_code |-> 200, location |-> NoHeader]))]>>,
      <<h, [A |-> FailedField("A", "NXDOMAIN"),
            CNAME |-> FailedField("CNAME", "NXDOMAIN"),
            NS |-> FailedField("NS", "NXDOMAIN"),
            Path |-> "Request Failed: timed out"]>> }

BatchSize_noPlusOne(n, workers) == IF n \div workers = 0 THEN 1 ELSE n \div workers

\* line 150
BatchSize(n, workers) == (n \div workers) + 1

Min(a, b) == IF a < b THEN a ELSE b

Range0_atLeastOne(n, step) == [k \in 1..((n \div step) + 1) |-> (k - 1) * step]

\* range(0, n, step), as the sequence of its values
Range0(n, step) == [k \in 1..((n + step - 1) \div step) |-> (k - 1) * step]

Slice_inclusive(seq, i, j) == SubSeq(seq, i + 1, Min(j + 1, Len(seq)))

\* seq[i:j] of Python, i and j counted from 0
Slice(seq, i, j) == SubSeq(seq, i + 1, Min(j, Len(seq)))

Batches_fromOne(list, batch_size) ==
    LET starts == Range0(Len(list), batch_size) IN
    [k \in 1..Len(starts) |-> Slice(list, starts[k] + 1, starts[k] + batch_size)]

\* line 151
Batches(list, batch_size) ==
    LET starts == Range0(Len(list), batch_size) IN
    [k \in 1..Len(starts) |-> Slice(list, starts[k], starts[k] + batch_size)]

\* line 146
Filter(list, targets) ==
    LET F[k \in 0..Len(list)] ==
          IF k = 0 THEN <<>>
          ELSE IF list[k].hostname \in targets THEN Append(F[k - 1], list[k])
          ELSE F[k - 1]
    IN F[Len(list)]

\* line 134: the seconds a lane sleeps after each check
sleep_seconds == 2

\* history entries of a lane: the probe call made for a check and the
\* RequestException it met, if any; the DNS and redirect call and what it
\* returned; the sleep and its length
ProbeCalled(check, e) ==
    [ev |-> "probe", id |-> check.id, error |-> e, host |-> EmptyResult, secs |-> 0]
HostChecked(check, r) ==
    [ev |-> "host", id |-> check.id, error |-> "", host |-> r, secs |-> 0]
Slept(check, secs) ==
    [ev |-> "sleep", id |-> check.id, error |-> "", host |-> EmptyResult, secs |-> secs]

\* a future and the thread that runs its batch
NewLane(batch) ==
    [state |-> "pending", pc |-> "probe", i |-> 1, batch |-> batch,
     pingdom_result |-> <<>>, results |-> <<>>, exception |-> "", log |-> <<>>]

Lanes == 1..Len(lane)
Done_notPending(k) == lane[k].state # "pending"
Done_finishedOnly(k) == lane[k].state = "finished"

\* future.done()
Done(k) == lane[k].state \in {"finished", "raised"}

MainIdle ==
    /\ checks = <<>>
    /\ target_urls = {}
    /\ filtered_checks = <<>>
    /\ max_workers = fixed_workers
    /\ batches = <<>>
    /\ m_pc = "idle"
    /\ lane = <<>>
    /\ yielded = {}
    /\ results = <<>>
    /\ csv_rows = <<>>

HostIdle ==
    /\ hostname = ""
    /\ result = EmptyResult
    /\ d_pc = "idle"
    /\ queried = <<>>
    /\ t_pc = "idle"
    /\ session_open = FALSE
    /\ response = NoResponse
    /\ redirects = <<>>
    /\ redirect_count = 0
    /\ gets = <<>>
    /\ answers = <<>>

\* lines 140-143: no checks, nothing to do
NoChecks ==
    /\ m_pc = "retrieve"
    /\ checks = <<>>
    /\ m_pc' = "returned"
    /\ UNCHANGED <<checks, target_urls, filtered_checks, max_workers, batches,
                   lane, yielded, results, csv_rows, hostVars>>

\* lines 146-153
Partition ==
    /\ m_pc = "retrieve"
    /\ checks # <<>>
    /\ filtered_checks' = Filter(checks, target_urls)
    /\ batches' = Batches(filtered_checks', BatchSize(Len(filtered_checks'), max_workers))
    /\ results' = <<>>
    /\ m_pc' = "submit"
    /\ UNCHANGED <<checks, target_urls, max_workers, lane, yielded, csv_rows, hostVars>>

\* lines 156-157: the next batch is submitted; after the last the loop of
\* line 159 begins
Submit ==
    /\ m_pc = "submit"
    /\ IF Len(lane) < Len(batches)
       THEN /\ lane' = Append(lane, NewLane(batches[Len(lane) + 1]))
            /\ UNCHANGED m_pc
       ELSE /\ m_pc' = "collect"
            /\ UNCHANGED lane
    /\ UNCHANGED <<checks, target_urls, filtered_checks, max_workers, batches,
                   yielded, results, csv_rows, hostVars>>

\* a worker thread of the pool takes the batch: at most max_workers threads
LaneStart(k) ==
    /\ lane[k].state = "pending"
    /\ Cardinality({j \in Lanes : lane[j].state = "running"}) < max_workers
    /\ lane' = [lane EXCEPT ![k].state = IF lane[k].batch = <<>> THEN "finished"
                                         ELSE "running"]
    /\ UNCHANGED <<checks, target_urls, filtered_checks, max_workers, batches, m_pc,
                   yielded, results, csv_rows, hostVars>>

\* lines 117-122: the probe call for the next check of the batch; an exception
\* leaving it leaves process_hostname_batch and is kept by the future
LaneProbe(k) ==
    /\ lane[k].state = "running"
    /\ lane[k].pc = "probe"
    /\ LET check == lane[k].batch[lane[k].i] IN
       \E o \in ProbeOutcomes :
          LET r == perform_pingdom_check(check.id, check.name, check.hostname, o) IN
          IF r.raised # ""
          THEN lane' = [lane EXCEPT ![k].state = "raised", ![k].exception = r.raised,
                                    ![k].log = Append(@, ProbeCalled(check, o.error))]
          ELSE lane' = [lane EXCEPT ![k].pingdom_result = r.value, ![k].pc = "dns",
                                    ![k].log = Append(@, ProbeCalled(check, o.error))]
    /\ UNCHANGED <<checks, target_urls, filtered_checks, max_workers, batches, m_pc,
                   yielded, results, csv_rows, hostVars>>

\* lines 124-133 followed at once by the next check: the sleep left out
LaneDnsRedirect_noSleep(k) ==
    /\ lane[k].state = "running"
    /\ lane[k].pc = "dns"
    /\ LET check == lane[k].batch[lane[k].i] IN
       \E dns_redirect_result \in HostResults(check.hostname) :
          LET combined_result ==
                lane[k].pingdom_result[2] \o
                    <<check.hostname,
                      dns_redirect_result[2].A,
                      dns_redirect_result[2].CNAME,
                      dns_redirect_result[2].NS,
                      dns_redirect_result[2].Path>>
              last == lane[k].i = Len(lane[k].batch)
          IN lane' = [lane EXCEPT ![k].results = Append(@, combined_result),
                                  ![k].pc = IF last THEN "return" ELSE "probe",
                                  ![k].state = IF last THEN "finished" ELSE "running",
                                  ![k].i = IF last THEN @ ELSE @ + 1,
                                  ![k].log = Append(@, HostChecked(check, dns_redirect_result[2]))]
    /\ UNCHANGED <<checks, target_urls, filtered_checks, max_workers, batches, m_pc,
                   yielded, results, csv_rows, hostVars>>

\* lines 124-133
LaneDnsRedirect(k) ==
    /\ lane[k].state = "running"
    /\ lane[k].pc = "dns"
    /\ LET check == lane[k].batch[lane[k].i] IN
       \E dns_redirect_result \in HostResults(check.hostname) :
          LET combined_result ==
                lane[k].pingdom_result[2] \o
                    <<check.hostname,
                      dns_redirect_result[2].A,
                      dns_redirect_result[2].CNAME,
                      dns_redirect_result[2].NS,
                      dns_redirect_result[2].Path>>
          IN lane' = [lane EXCEPT ![k].results = Append(@, combined_result),
                                  ![k].pc = "sleep",
                                  ![k].log = Append(@, HostChecked(check, dns_redirect_result[2]))]
    /\ UNCHANGED <<checks, target_urls, filtered_checks, max_workers, batches, m_pc,
                   yielded, results, csv_rows, hostVars>>

\* lines 134-135, 117: the pause, then the next check or the return
LaneSleep(k) ==
    /\ lane[k].state = "running"
    /\ lane[k].pc = "sleep"
    /\ LET check == lane[k].batch[lane[k].i] IN
       IF lane[k].i < Len(lane[k].batch)
       THEN lane' = [lane EXCEPT ![k].i = @ + 1, ![k].pc = "probe",
                                 ![k].log = Append(@, Slept(check, sleep_seconds))]
       ELSE lane' = [lane EXCEPT ![k].state = "finished", ![k].pc = "return",
                                 ![k].log = Append(@, Slept(check, sleep_seconds))]
    /\ UNCHANGED <<checks, target_urls, filtered_checks, max_workers, batches, m_pc,
                   yielded, results, csv_rows, hostVars>>

\* lines 159-161: as_completed hands out a future that is done; result()
\* returns the lane's list, or raises what the lane raised
Collect(k) ==
    /\ m_pc = "collect"
    /\ k \notin yielded
    /\ Done(k)
    /\ yielded' = yielded \cup {k}
    /\ IF lane[k].state = "raised"
       THEN /\ m_pc' = "unwind"
            /\ UNCHANGED results
       ELSE /\ results' = results \o lane[k].results
            /\ UNCHANGED m_pc
    /\ UNCHANGED <<checks, target_urls, filtered_checks, max_workers, batches,
                   lane, csv_rows, hostVars>>

\* line 156: the with block ends after the loop, shutdown(wait=True) returns
\* when every worker thread has ended
ExitWith ==
    /\ m_pc = "collect"
    /\ yielded = Lanes
    /\ \A k \in Lanes : Done(k)
    /\ m_pc' = "write"
    /\ UNCHANGED <<checks, target_urls, filtered_checks, max_workers, batches,
                   lane, yielded, results, csv_rows, hostVars>>

\* line 156: the with block is left by the exception of line 160;
\* shutdown(wait=True) waits for the worker threads, then main ends with it
ExitRaise ==
    /\ m_pc = "unwind"
    /\ \A k \in Lanes : Done(k)
    /\ m_pc' = "crashed"
    /\ UNCHANGED <<checks, target_urls, filtered_checks, max_workers, batches,
                   lane, yielded, results, csv_rows, hostVars>>

\* lines 163-175
WriteCsv ==
    /\ m_pc = "write"
    /\ csv_rows' = results
    /\ m_pc' = "done"
    /\ UNCHANGED <<checks, target_urls, filtered_checks, max_workers, batches,
                   lane, yielded, results, hostVars>>

----------------------------------------------------------------------------
(* Specifications *)

\* the DNS part has run: here every query was answered without records
InitTrace ==
    /\ hostname \in Hostnames
    /\ result = [A |-> RecordsField("A", <<>>), CNAME |-> RecordsField("CNAME", <<>>),
                 NS |-> RecordsField("NS", <<>>), Path |-> ""]
    /\ d_pc = "done"
    /\ queried = [i \in 1..3 |-> Resolved(RecordTypes[i], <<>>)]
    /\ TraceInit
    /\ MainIdle

NextTrace == FirstGet \/ Classify \/ LoopIter \/ LoopExit

SpecTrace == InitTrace /\ [][NextTrace]_vars

\* check_redirects_and_dns from its first line to the end of the DNS part
InitDNS ==
    /\ hostname \in Hostnames
    /\ result = EmptyResult
    /\ DnsInit
    /\ TraceInit
    /\ MainIdle

NextDNS == MakeResolver \/ LookupA \/ LookupCNAME \/ LookupNS

SpecDNS == InitDNS /\ [][NextDNS]_vars

\* the longest check list and the largest lane count, besides the 16 of
\* main, the partitioning is tried on
MaxPartLen == 40
MaxLaneCount == 4

\* lines 149-151 alone, on check lists of every length up to MaxPartLen
InitPart ==
    /\ HostIdle
    /\ \E n \in 0..MaxPartLen :
          /\ checks = [i \in 1..n |-> CheckOf(i)]
          /\ filtered_checks = checks
    /\ target_urls = Hostnames
    /\ max_workers \in (1..MaxLaneCount) \cup {fixed_workers}
    /\ batches = <<>>
    /\ m_pc = "partition"
    /\ lane = <<>>
    /\ yielded = {}
    /\ results = <<>>
    /\ csv_rows = <<>>

PartitionOnly ==
    /\ m_pc = "partition"
    /\ batches' = Batches(filtered_checks, BatchSize(Len(filtered_checks), max_workers))
    /\ m_pc' = "partitioned"
    /\ UNCHANGED <<checks, target_urls, filtered_checks, max_workers, lane, yielded,
                   results, csv_rows, hostVars>>

NextPart == PartitionOnly

SpecPart == InitPart /\ [][NextPart]_vars

\* the longest slice a lane is run on
MaxBatch == 2

\* process_hostname_batch alone (lines 115-135): two pool threads, each on a
\* slice of up to MaxBatch checks, as main cuts them from 16 checks or more
InitLane ==
    /\ HostIdle
    /\ \E b1, b2 \in 1..MaxBatch :
          /\ checks = [i \in 1..(b1 + b2) |-> CheckOf(i)]
          /\ batches = <<SubSeq(checks, 1, b1), SubSeq(checks, b1 + 1, b1 + b2)>>
    /\ target_urls = Hostnames
    /\ filtered_checks = checks
    /\ max_workers = fixed_workers
    /\ lane = [k \in 1..2 |-> NewLane(batches[k])]
    /\ m_pc = "lanes"
    /\ yielded = {}
    /\ results = <<>>
    /\ csv_rows = <<>>

NextLane ==
    \/ \E k \in Lanes : LaneStart(k)
    \/ \E k \in Lanes : LaneProbe(k)
    \/ \E k \in Lanes : LaneDnsRedirect(k)
    \/ \E k \in Lanes : LaneSleep(k)

SpecLane == InitLane /\ [][NextLane]_vars

\* main, from the return of retrieve_pingdom_checks
Init ==
    /\ HostIdle
    /\ \E n \in 0..MaxChecks : checks = [i \in 1..n |-> CheckOf(i)]
    /\ target_urls \in SUBSET Hostnames
    /\ filtered_checks = <<>>
    /\ max_workers = fixed_workers
    /\ batches = <<>>
    /\ m_pc = "retrieve"
    /\ lane = <<>>
    /\ yielded = {}
    /\ results = <<>>
    /\ csv_rows = <<>>

Next ==
    \/ NoChecks
    \/ Partition
    \/ Submit
    \/ \E k \in Lanes : LaneStart(k)
    \/ \E k \in Lanes : LaneProbe(k)
    \/ \E k \in Lanes : LaneDnsRedirect(k)
    \/ \E k \in Lanes : LaneSleep(k)
    \/ \E k \in Lanes : Collect(k)
    \/ ExitWith
    \/ ExitRaise
    \/ WriteCsv

Spec == Init /\ [][Next]_vars

\* what the thread of lane k can do
LaneStep(k) ==
    /\ k \in Lanes
    /\ LaneStart(k) \/ LaneProbe(k) \/ LaneDnsRedirect(k) \/ LaneSleep(k)

\* what the main thread can do
MainStep ==
    \/ NoChecks \/ Partition \/ Submit \/ ExitWith \/ ExitRaise \/ WriteCsv
    \/ \E k \in Lanes : Collect(k)

\* every thread that can take a step gets to take it, and every call a step
\* stands for comes back: each network call ends by its timeout (30 s at line
\* 32, 20 s at lines 82 and 100) and the sleep of line 134 ends
FairSpec ==
    /\ Spec
    /\ WF_vars(MainStep)
    /\ \A k \in 1..MaxChecks : WF_vars(LaneStep(k))

----------------------------------------------------------------------------
(* Properties of the scheduler (Spec) and of the partitioning (SpecPart) *)

Elements(seq) == {seq[i] : i \in 1..Len(seq)}

RECURSIVE SumLen(_)
SumLen(seqs) == IF seqs = <<>> THEN 0 ELSE Len(seqs[1]) + SumLen(Tail(seqs))

\* the rows of a list that belong to a check: column 7 is the check id
RowsOf(rows, check) == {i \in 1..Len(rows) : rows[i][7] = check.id}

MainEnded == m_pc \in {"done", "crashed"}

\* C1: when the scheduler has ended, whatever the sub-calls met, the final
\* result set holds exactly one CombinedResult for each submitted HostCheck.
C1_OneRowPerCheck ==
    MainEnded =>
        /\ Len(results) = Len(filtered_checks)
        /\ \A c \in Elements(filtered_checks) : Cardinality(RowsOf(results, c)) = 1

\* C2: the diagnostic of one HostCheck never lets an exception out: no lane,
\* and so no future, ever ends with an exception.
C2_NoException ==
    \A k \in Lanes : lane[k].state # "raised" /\ lane[k].exception = ""

\* C3: the lengths of the lane slices sum to the length of the check list,
\* every slice element is an element of the list, and no element of the list
\* is in two lanes (nor twice in one).
C3_Partition ==
    m_pc = "partitioned" =>
        /\ SumLen(batches) = Len(filtered_checks)
        /\ \A k \in 1..Len(batches) : Elements(batches[k]) \subseteq Elements(filtered_checks)
        /\ \A k1, k2 \in 1..Len(batches) :
             \A i \in 1..Len(batches[k1]), j \in 1..Len(batches[k2]) :
                batches[k1][i] = batches[k2][j] => (k1 = k2 /\ i = j)

\* 17 checks on 16 workers: slices of 2, the ninth holding the last check
C3_Witness ==
    /\ m_pc = "partitioned"
    /\ max_workers = 16
    /\ Len(filtered_checks) = 17
    /\ Len(batches) = 9
    /\ Len(batches[1]) = 2
    /\ batches[9] = <<CheckOf(17)>>

RECURSIVE Concat(_)
Concat(seqs) == IF seqs = <<>> THEN <<>> ELSE seqs[1] \o Concat(Tail(seqs))

CeilDiv(a, b) == (a + b - 1) \div b

\* C15 as claimed: a non-empty check list is cut into exactly N contiguous
\* slices (N the lane count), some possibly empty, whose concatenation is the
\* list, all of one size but the last, which may be shorter.
C15_ExactlyN ==
    (m_pc = "partitioned" /\ filtered_checks # <<>>) =>
        /\ Len(batches) = max_workers
        /\ Concat(batches) = filtered_checks
        /\ \A k \in 1..(Len(batches) - 1) : Len(batches[k]) = Len(batches[1])
        /\ Len(batches[Len(batches)]) <= Len(batches[1])

\* C15 as amended: a non-empty list of L checks is cut into
\* ceil(L / (L div N + 1)) contiguous slices, which is at most N and may be
\* fewer; none is empty; their concatenation in order is the list; all have
\* L div N + 1 elements but the last, which may have fewer.
C15_AtMostN ==
    (m_pc = "partitioned" /\ filtered_checks # <<>>) =>
        LET L == Len(filtered_checks)
            size == (L \div max_workers) + 1
        IN
        /\ Len(batches) = CeilDiv(L, size)
        /\ Len(batches) <= max_workers
        /\ Concat(batches) = filtered_checks
        /\ \A k \in 1..(Len(batches) - 1) : Len(batches[k]) = size
        /\ Len(batches[Len(batches)]) \in 1..size

\* 33 checks on 16 workers: eleven slices of three, not sixteen
C15_Witness ==
    /\ m_pc = "partitioned"
    /\ max_workers = 16
    /\ Len(filtered_checks) = 33
    /\ Len(batches) = 11
    /\ \A k \in 1..11 : Len(batches[k]) = 3

\* C16: the partitioning never makes more lanes than there are workers, and
\* makes no empty lane, so with the 16 workers of main every lane has a
\* worker thread of its own.
C16_LanesFitWorkers ==
    m_pc = "partitioned" =>
        /\ Len(batches) <= max_workers
        /\ \A k \in 1..Len(batches) : batches[k] # <<>>
        /\ max_workers = 16 =>
              Len(batches) = CeilDiv(Len(filtered_checks), (Len(filtered_checks) \div 16) + 1)

\* 31 checks: slices of two, and all 16 workers taken
C16_Witness ==
    /\ m_pc = "partitioned"
    /\ max_workers = 16
    /\ Len(filtered_checks) = 31
    /\ Len(batches) = 16

\* C4: main passes the join, and hands the results to the CSV writer, only
\* when every batch has been submitted and every lane has finished and had its
\* list merged into `results`; when it ends with a lane's exception instead,
\* every lane has ended too.
C4_WaitsForAll ==
    /\ (m_pc \in {"write", "done"} \/ csv_rows # <<>>) =>
          /\ Len(lane) = Len(batches)
          /\ \A k \in Lanes :
                /\ lane[k].state = "finished"
                /\ k \in yielded
                /\ Len(lane[k].results) = Len(lane[k].batch)
                /\ Elements(lane[k].results) \subseteq Elements(results)
          /\ Len(results) = SumLen([k \in Lanes |-> lane[k].results])
    /\ m_pc = "crashed" =>
          /\ Len(lane) = Len(batches)
          /\ \A k \in Lanes : lane[k].state \in {"finished", "raised"}

\* three lanes joined and their three rows written
C4_Witness ==
    /\ m_pc = "done"
    /\ Len(lane) = 3
    /\ Len(csv_rows) = 3
    /\ \A k \in Lanes : lane[k].state = "finished"

\* the row a lane holds for the check of a history entry
RowFor(k, id) == CHOOSE r \in Elements(lane[k].results) : r[7] = id

\* C11: when the probe call fails at the request layer, the lane goes on: the
\* DNS and redirect call for the same hostname is made next, and the row has
\* the failure detail in its status column and, in its DNS and redirect
\* columns, what that call returned.
C11_ProbeFailureIsData ==
    \A k \in Lanes : \A j \in 1..Len(lane[k].log) :
        LET e == lane[k].log[j] IN
        (e.ev = "probe" /\ e.error # "") =>
            /\ lane[k].state # "raised"
            /\ Len(lane[k].log) = j =>
                  (lane[k].state = "running" /\ lane[k].pc = "dns"
                   /\ ENABLED LaneDnsRedirect(k))
            /\ Len(lane[k].log) > j =>
                  LET h == lane[k].log[j + 1] IN
                  /\ h.ev = "host" /\ h.id = e.id
                  /\ \E r \in Elements(lane[k].results) : r[7] = e.id
                  /\ LET row == RowFor(k, e.id) IN
                     /\ row[3] = "Error: " \o e.error
                     /\ <<row[9], row[10], row[11], row[12]>>
                          = <<h.host.A, h.host.CNAME, h.host.NS, h.host.Path>>

\* the probe timed out, DNS and redirect trace succeeded, and the row is written
C11_Witness ==
    /\ m_pc = "done"
    /\ \E i \in 1..Len(csv_rows) :
          /\ csv_rows[i][3] = "Error: timed out"
          /\ csv_rows[i][9] = "192.0.2.1"
          /\ csv_rows[i][12] = "200 => http://example.com/ (No redirection)"

\* C12: with no check to process, whether none was retrieved or none passed
\* the filter, no lane is submitted and the result set stays empty.
C12_EmptyInput ==
    (m_pc # "retrieve" /\ filtered_checks = <<>>) =>
        /\ lane = <<>>
        /\ batches = <<>>
        /\ results = <<>>
        /\ csv_rows = <<>>
        /\ m_pc # "crashed"

\* checks were retrieved, none is for an asked hostname, and main has ended
C12_Witness ==
    /\ m_pc = "done"
    /\ checks # <<>>
    /\ filtered_checks = <<>>
    /\ lane = <<>>

\* what a lane does for one check, in order
LaneSteps == <<"probe", "host", "sleep">>

\* C13: a lane works through its slice in slice order, one check at a time:
\* for each check the probe call, then the DNS and redirect call, then the
\* sleep of 2 seconds, and only then the probe call for the next check, so
\* two probe calls of a lane are at least one sleep apart, whatever the other
\* lane does meanwhile; a lane that raised stopped at a probe call.
C13_LaneOrder ==
    \A k \in Lanes :
        /\ Len(lane[k].log) <= 3 * Len(lane[k].batch)
        /\ \A j \in 1..Len(lane[k].log) :
              LET e == lane[k].log[j] IN
              /\ e.id = lane[k].batch[((j - 1) \div 3) + 1].id
              /\ e.ev = LaneSteps[((j - 1) % 3) + 1]
              /\ e.ev = "sleep" => e.secs = 2
        /\ lane[k].state = "running" =>
              /\ lane[k].i = (Len(lane[k].log) \div 3) + 1
              /\ lane[k].pc = LaneSteps[(Len(lane[k].log) % 3) + 1]
                    \/ (lane[k].pc = "dns" /\ Len(lane[k].log) % 3 = 1)
        /\ lane[k].state = "finished" => Len(lane[k].log) = 3 * Len(lane[k].batch)

\* the first lane is through both its checks while the second is in the
\* sleep after its first
C13_Witness ==
    /\ Len(lane) = 2
    /\ Len(lane[1].batch) = 2 /\ Len(lane[1].log) = 6
    /\ Len(lane[2].batch) = 2 /\ Len(lane[2].log) = 2 /\ lane[2].pc = "sleep"

C14_OtherLanesKept ==
    (MainEnded /\ \E k \in Lanes : lane[k].state = "raised") =>
        \A j \in Lanes :
            lane[j].state = "finished" =>
                /\ Len(lane[j].results) = Len(lane[j].batch)
                /\ Elements(lane[j].results) \subseteq Elements(csv_rows)

\* the values C17 allows in the field of record type t
C17_Allowed(t, v) ==
    \/ \E ans \in DnsAnswers(t) : ans # <<>> /\ v = Join(ans, ", ")
    \/ v = "No " \o t \o " Records Found"
    \/ \E e \in DnsErrors \cup ResolverErrors : v = "DNS Lookup " \o t \o " Failed: " \o e

\* C17: after the DNS inspection each of the three fields holds the joined
\* records, the "no records found" text of its type or an error text naming
\* its type, and none is empty, also when the resolver could not be set up.
C17_NoEmptyField ==
    d_pc = "done" =>
        \A i \in 1..3 :
            /\ result[RecordTypes[i]] # ""
            /\ C17_Allowed(RecordTypes[i], result[RecordTypes[i]])

----------------------------------------------------------------------------
(* Properties of the redirect trace (SpecTrace) *)

Last(seq) == seq[Len(seq)]
NoFailure == \A i \in 1..Len(answers) : answers[i].error = ""
FirstIsRedirect == answers # <<>> /\ answers[1].error = "" /\ is_redirect(answers[1])

\* C5: whatever the servers answer, a trace issues at most 5 GET requests after
\* the initial one, and once it has returned it issues no more.
C5_HopLimit ==
    /\ Len(gets) <= 1 + 5
    /\ t_pc = "done" => ~ENABLED NextTrace

\* an endless chain: six GETs made, the sixth answered by one more redirect
C5_Witness ==
    /\ t_pc = "done"
    /\ Len(gets) = 6
    /\ NoFailure
    /\ is_redirect(Last(answers))

\* the entries C6 expects: one per followed redirect, the status of the redirect
\* and the URL that was then requested, and one for the last response
C6_Expected ==
    [i \in 1..Len(answers) |->
        IF i < Len(answers)
        THEN ToString(answers[i].status_code) \o " => " \o gets[i + 1]
        ELSE ToString(answers[i].status_code) \o " => " \o response.url]

\* C6: when the first response is a redirect and no request fails, the trace is
\* one "{status} => {resolved location}" entry per followed redirect, in order,
\* then one "{status} => {url}" entry for the last response, joined by " | ";
\* a 301 to https://other.com/ answered by 200 gives
\* "301 => https://other.com/ | 200 => https://other.com/".
C6_TraceFormat ==
    (t_pc = "done" /\ FirstIsRedirect /\ NoFailure) =>
        /\ Len(gets) = Len(answers)
        /\ result.Path = Join(C6_Expected, " | ")
        /\ (/\ Len(answers) = 2
            /\ answers[1].status_code = 301
            /\ answers[1].location = "https://other.com/"
            /\ answers[2].status_code = 200)
           => result.Path = "301 => https://other.com/ | 200 => https://other.com/"

C6_Witness ==
    /\ t_pc = "done"
    /\ Len(answers) = 3
    /\ answers[1].status_code = 302 /\ answers[1].location = "path"
    /\ answers[2].status_code = 301 /\ answers[2].location = "https://other.com/"
    /\ answers[3].status_code = 200
    /\ hostname = "a.io"
    /\ result.Path = "302 => http://a.io/path | 301 => https://other.com/ | 200 => https://other.com/"

IsSuccess(a) == a.error = "" /\ a.status_code \in 200..299 /\ ~is_redirect(a)

\* C7 as claimed: whenever the first response is a non-redirect success, of any
\* success status, the trace is the single entry
\* "{status} => {final_url} (No redirection)" and no further request is issued.
C7_AnySuccess ==
    (t_pc = "done" /\ answers # <<>> /\ IsSuccess(answers[1])) =>
        /\ result.Path = ToString(answers[1].status_code) \o " => " \o response.url
                            \o " (No redirection)"
        /\ Len(gets) = 1

\* C7 as amended: a first response with status 200 gives the single entry
\* "200 => {url} (No redirection)"; a first response with any other success
\* status that is not a redirect gives "No Redirect"; neither issues a further
\* request.
C7_Only200 ==
    (t_pc = "done" /\ answers # <<>> /\ IsSuccess(answers[1])) =>
        /\ Len(gets) = 1
        /\ result.Path =
             IF answers[1].status_code = 200
             THEN "200 => " \o PreparedUrl("http://" \o hostname) \o " (No redirection)"
             ELSE "No Redirect"

C7_Witness ==
    /\ t_pc = "done"
    /\ hostname = "example.com"
    /\ Len(gets) = 1
    /\ answers # <<>> /\ answers[1].status_code = 200
    /\ result.Path = "200 => http://example.com/ (No redirection)"

\* C8: when a GET of the trace, the first or a later one, fails at the request
\* level, the rendered trace is exactly "Request Failed: {error detail}" and
\* holds none of the hops collected before.
C8_FailureResets ==
    (t_pc = "done" /\ answers # <<>> /\ Last(answers).error # "") =>
        result.Path = "Request Failed: " \o Last(answers).error

\* a failure on a follow-up GET, after two hops were collected
C8_Witness ==
    /\ t_pc = "done"
    /\ Len(answers) = 3
    /\ Len(redirects) = 2
    /\ Last(answers).error = "timed out"
    /\ result.Path = "Request Failed: timed out"

\* C18: when a trace has returned, on any path, the HTTP session it opened is
\* closed.
C18_SessionClosed ==
    t_pc = "done" => ~session_open

IsRelative(loc) == ~StartsWith(loc, "http://") /\ ~StartsWith(loc, "https://")

\* C19: a relative Location, also one that begins with more than one "/", is
\* never requested at a URL with "//" between the host and the path.
C19_SingleSeparator ==
    \A i \in 2..Len(gets) :
        IsRelative(answers[i - 1].location) =>
            /\ StartsWith(gets[i], "http://" \o hostname \o "/")
            /\ ~StartsWith(gets[i], "http://" \o hostname \o "//")

\* the reference resolution C9 gives
C9_Reference(h, loc) ==
    CASE StartsWith(loc, "http://") \/ StartsWith(loc, "https://") -> loc
      [] StartsWith(loc, "/") -> "http://" \o h \o loc
      [] OTHER -> "http://" \o h \o "/" \o loc

\* C9: every followed Location is requested at the URL the reference gives for
\* it: unchanged if absolute, else resolved against the original hostname, also
\* after a hop to another host; for example.com, "/path" and "path" both
\* resolve to "http://example.com/path".
C9_Resolution ==
    /\ \A i \in 2..Len(gets) : gets[i] = C9_Reference(hostname, answers[i - 1].location)
    /\ \A h \in Hostnames, loc \in Locations :
          ResolveLocation(h, loc) = C9_Reference(h, loc)
    /\ ResolveLocation("example.com", "/path") = "http://example.com/path"
    /\ ResolveLocation("example.com", "path") = "http://example.com/path"

\* a relative Location met after a hop to another host
C9_Witness ==
    /\ hostname = "example.com"
    /\ Len(gets) = 3
    /\ gets[2] = "https://other.com/"
    /\ answers[2].location = "path"
    /\ gets[3] = "http://example.com/path"

----------------------------------------------------------------------------
(* Properties of the DNS inspection (SpecDNS) *)

\* what C10 expects in a field, from the outcome of that field's own query
C10_Field(q) ==
    IF q.error # "" THEN "DNS Lookup " \o q.type \o " Failed: " \o q.error
    ELSE IF q.answer = <<>> THEN "No " \o q.type \o " Records Found"
    ELSE Join(q.answer, ", ")

\* C10: each DNS field is determined by the outcome of its own query alone
\* (records, no records, error), whatever the other two queries did, and once
\* the resolver exists all three queries are made and recorded, also after a
\* failed one.
C10_Independent ==
    /\ \A i \in 1..Len(queried) :
          /\ queried[i].type = RecordTypes[i]
          /\ result[queried[i].type] = C10_Field(queried[i])
    /\ (d_pc = "done" /\ queried # <<>>) => Len(queried) = 3

\* the A query failed, the CNAME query returned a record, the NS query none
C10_Witness ==
    /\ d_pc = "done"
    /\ Len(queried) = 3
    /\ queried[1].error = "NXDOMAIN"
    /\ result.A = "DNS Lookup A Failed: NXDOMAIN"
    /\ result.CNAME = "cdn.example.net."
    /\ result.NS = "No NS Records Found"

====
